---- MODULE Spec2Model ----
(***************************************************************************)
(* Model of the configuration store of backendutil (src/Configurable.py):  *)
(* the module-level load of config.json into __CONFIGURABLES__, the merge  *)
(* performed by Configurable.__init__ (attach), save_config/make_config   *)
(* and make_name.                                                          *)
(*                                                                         *)
(* Python values are trees of nodes.  A node is a record                   *)
(*   [t |-> type name, n |-> number, s |-> characters, m |-> items of a    *)
(*    dict, e |-> elements of a list or tuple].                            *)
(* Strings (and so every dict key) are sequences of one-character strings, *)
(* so that str(self)[0], key.startswith("_"), str.lower() and the          *)
(* substring test of `in` are computed, not assumed.  Floats are written   *)
(* in tenths (2.5 is n = 25).                                              *)
(* Python dicts are references; the model copies values.  The only place   *)
(* the difference shows is a live component whose dict attribute is also a *)
(* store entry: no formula below reads a component's attributes after the  *)
(* attach that built it has returned.                                      *)
(***************************************************************************)
EXTENDS Integers, Sequences, FiniteSets, TLC

VARIABLES
    file,        \* config.json on disk
    pc,          \* "boot": process not started; "running"; "failed": import raised
    store,       \* __CONFIGURABLES__ of the running process
    last,        \* the most recent Configurable.__init__ call of this process
    attached,    \* identities <<section, name>> whose __init__ returned
    placed,      \* paths of the keys the __init__ calls of this process added
    bootFile,    \* config.json as it was when this process was started
    saved,       \* the store as it was at the latest save_config, in any process
    runs,        \* number of processes started
    calls        \* number of __init__ calls made

vars == <<file, pc, store, last, attached, placed, bootFile, saved, runs, calls>>

(* Bounds *)
MaxRuns == 2
MaxCalls == 3

----------------------------------------------------------------------------
(* Python values *)

Node(t) == [t |-> t, n |-> 0, s |-> <<>>, m |-> <<>>, e |-> <<>>]
PyNone == Node("NoneType")
PyBool(b) == [Node("bool") EXCEPT !.n = IF b THEN 1 ELSE 0]
PyInt(i) == [Node("int") EXCEPT !.n = i]
PyFloat(tenths) == [Node("float") EXCEPT !.n = tenths]
PyStr(chars) == [Node("str") EXCEPT !.s = chars]
PyDict(items) == [Node("dict") EXCEPT !.m = items]
PyList(elems) == [Node("list") EXCEPT !.e = elems]
PyTuple(elems) == [Node("tuple") EXCEPT !.e = elems]
PyMethod == Node("method")

IsDict(v) == v.t = "dict"

\* d[k] = v on a dict's items
SetItem(items, k, v) ==
    [x \in (DOMAIN items) \cup {k} |-> IF x = k THEN v ELSE items[x]]

\* bool(v)
Truthy(v) ==
    CASE v.t \in {"bool", "int", "float"} -> v.n # 0
      [] v.t = "str" -> v.s # <<>>
      [] v.t = "dict" -> DOMAIN v.m # {}
      [] v.t \in {"list", "tuple"} -> v.e # <<>>
      [] v.t = "NoneType" -> FALSE
      [] OTHER -> TRUE

\* needle in haystack, for two strings
IsSubstring(needle, hay) ==
    \E i \in 1..(Len(hay) + 1) :
        /\ i + Len(needle) - 1 <= Len(hay)
        /\ SubSeq(hay, i, i + Len(needle) - 1) = needle

\* `key in c` for a string key: "yes", "no", or "TypeError"
Contains(c, key) ==
    CASE c.t = "dict" -> IF key \in DOMAIN c.m THEN "yes" ELSE "no"
      [] c.t \in {"list", "tuple"} ->
            IF \E i \in DOMAIN c.e : c.e[i].t = "str" /\ c.e[i].s = key
            THEN "yes" ELSE "no"
      [] c.t = "str" -> IF IsSubstring(key, c.s) THEN "yes" ELSE "no"
      [] OTHER -> "TypeError"

----------------------------------------------------------------------------
(* Names *)

UseConfigKey == <<"u", "s", "e", "-", "c", "o", "n", "f", "i", "g">>
UseConfigCommentKey == UseConfigKey \o <<"-", "c", "o", "m", "m", "e", "n", "t">>

\* the two sentences of the comment, abbreviated to their first word
CommentLines == <<PyStr(<<"S", "e", "t">>), PyStr(<<"I", "f">>)>>

DefaultConfig ==
    PyDict(SetItem(SetItem(<<>>, UseConfigKey, PyBool(FALSE)),
                   UseConfigCommentKey, PyList(CommentLines)))

ConfigurableTypes == {"dict", "str", "int", "float", "bool", "tuple"}

LowerChar(ch) ==
    CASE ch = "W" -> "w" [] ch = "M" -> "m" [] ch = "X" -> "x"
      [] ch = "Y" -> "y" [] ch = "P" -> "p" [] OTHER -> ch

\* str.lower()
Lower(chars) == [i \in DOMAIN chars |-> LowerChar(chars[i])]

\* key.startswith("_")
StartsWithUnderscore(key) == Len(key) > 0 /\ key[1] = "_"

\* str(self): __str__ of the subclass, or object.__str__, "<... object at 0x...>"
Str(comp) ==
    IF comp.str.has THEN comp.str.s
    ELSE <<"<">> \o comp.cls \o <<">">>

\* make_name: "IndexError" when str(self) is empty
MakeName(comp) ==
    IF Len(Str(comp)) = 0 THEN [raised |-> "IndexError", name |-> <<>>]
    ELSE [raised |-> "",
          name |-> IF Str(comp)[1] = "<" THEN Lower(comp.cls) ELSE Str(comp)]

----------------------------------------------------------------------------
(* Serialisation *)

\* json.loads(json.dumps(v)): a tuple is written as an array and read as a list
RECURSIVE Dumps(_)
Dumps(v) ==
    [v EXCEPT !.t = IF @ = "tuple" THEN "list" ELSE @,
              !.m = [k \in DOMAIN v.m |-> Dumps(v.m[k])],
              !.e = [i \in DOMAIN v.e |-> Dumps(v.e[i])]]

Missing == [kind |-> "missing", doc |-> PyNone]
Garbage == [kind |-> "garbage", doc |-> PyNone]
Json(doc) == [kind |-> "json", doc |-> doc]

\* Load without lines 24-25: the file is used whatever use-config says
LoadKeepsFile(f) ==
    IF f.kind = "missing" THEN [raised |-> "", store |-> DefaultConfig]
    ELSE IF f.kind = "garbage"
    THEN [raised |-> "JSONDecodeError", store |-> DefaultConfig]
    ELSE IF ~IsDict(f.doc) THEN [raised |-> "TypeError", store |-> DefaultConfig]
    ELSE [raised |-> "", store |-> f.doc]

\* module level, lines 23-25: the value of __CONFIGURABLES__, or the exception
Load(f) ==
    IF f.kind = "missing" THEN [raised |-> "", store |-> DefaultConfig]
    ELSE IF f.kind = "garbage"
    THEN [raised |-> "JSONDecodeError", store |-> DefaultConfig]
    ELSE LET has == Contains(f.doc, UseConfigKey) IN
         IF has = "TypeError" THEN [raised |-> "TypeError", store |-> DefaultConfig]
         ELSE IF has = "no" THEN [raised |-> "", store |-> DefaultConfig]
         ELSE IF ~IsDict(f.doc) THEN [raised |-> "TypeError", store |-> DefaultConfig]
         ELSE IF ~Truthy(f.doc.m[UseConfigKey])
         THEN [raised |-> "", store |-> DefaultConfig]
         ELSE [raised |-> "", store |-> f.doc]

----------------------------------------------------------------------------
(* Configurable.__init__ *)

\* AttachLoop with line 66 lost: a stored value is counted, not written back
RECURSIVE AttachLoopKeepsDefault(_, _, _)
AttachLoopKeepsDefault(dir, i, st) ==
    IF i > Len(dir) \/ st.raised # "" THEN st
    ELSE LET key == dir[i]
             value == st.attrs[key]
             has == Contains(st.c, key)
         IN  IF StartsWithUnderscore(key) THEN AttachLoopKeepsDefault(dir, i + 1, st)
             ELSE IF value.t \notin ConfigurableTypes
             THEN AttachLoopKeepsDefault(dir, i + 1, st)
             ELSE IF has = "TypeError" \/ ~IsDict(st.c)
             THEN [st EXCEPT !.raised = "TypeError"]
             ELSE IF has = "no"
             THEN AttachLoopKeepsDefault(dir, i + 1,
                      [st EXCEPT !.c = PyDict(SetItem(st.c.m, key, value)),
                                 !.default = @ + 1])
             ELSE AttachLoopKeepsDefault(dir, i + 1,
                      [st EXCEPT !.configured = @ + 1])

\* the for loop of lines 56-67 from position i on; st is
\* [raised, c, attrs, configured, default], c being the component's entry
RECURSIVE AttachLoop(_, _, _)
AttachLoop(dir, i, st) ==
    IF i > Len(dir) \/ st.raised # "" THEN st
    ELSE LET key == dir[i]
             value == st.attrs[key]
             has == Contains(st.c, key)
         IN  IF StartsWithUnderscore(key) THEN AttachLoop(dir, i + 1, st)
             ELSE IF value.t \notin ConfigurableTypes THEN AttachLoop(dir, i + 1, st)
             ELSE IF has = "TypeError" \/ ~IsDict(st.c)
             THEN [st EXCEPT !.raised = "TypeError"]
             ELSE IF has = "no"
             THEN AttachLoop(dir, i + 1,
                      [st EXCEPT !.c = PyDict(SetItem(st.c.m, key, value)),
                                 !.default = @ + 1])
             ELSE AttachLoop(dir, i + 1,
                      [st EXCEPT !.attrs = [@ EXCEPT ![key] = st.c.m[key]],
                                 !.configured = @ + 1])

\* lines 40-41: the store with the section added if missing
WithSection(root, section) ==
    IF section # <<>> /\ section \notin DOMAIN root.m
    THEN PyDict(SetItem(root.m, section, PyDict(<<>>)))
    ELSE root

\* line 42: the mapping the component's entry is looked up in
SectionOf(root, section) == IF section # <<>> THEN root.m[section] ELSE root

\* the store with c put back where SectionOf took it from
WithSectionValue(root, section, c) ==
    IF section # <<>> THEN PyDict(SetItem(root.m, section, c)) ELSE c

\* EnsureName with the test of line 45 lost: the entry is emptied every time
EnsureNameAlways(c, has, name) == PyDict(SetItem(c.m, name, PyDict(<<>>)))

\* lines 45-46: c with an empty entry added under name if there is none
EnsureName(c, has, name) ==
    IF has = "no" THEN PyDict(SetItem(c.m, name, PyDict(<<>>))) ELSE c

\* ShouldSave testing the other counter
ShouldSaveConfigured(configured, default) == configured > 0

\* line 71
ShouldSave(configured, default) == default > 0

\* lines 34-72: what a call of __init__ on a new instance of comp does to the
\* store and to the instance, and whether it reaches save_config
Attach(root, comp) ==
    LET nm == MakeName(comp)
        none == [raised |-> nm.raised, name |-> nm.name, store |-> root,
                 attrs |-> comp.attrs, configured |-> 0, default |-> 0,
                 save |-> FALSE]
        root1 == WithSection(root, comp.section)
        c == SectionOf(root1, comp.section)
        has == Contains(c, nm.name)
    IN  IF nm.raised # "" THEN none
        ELSE IF has = "TypeError" \/ ~IsDict(c)
        THEN [none EXCEPT !.raised = "TypeError", !.store = root1]
        ELSE LET c1 == EnsureName(c, has, nm.name)
                 st == AttachLoop(comp.dir, 1,
                           [raised |-> "", c |-> c1.m[nm.name],
                            attrs |-> comp.attrs, configured |-> 0,
                            default |-> 0])
                 root2 == WithSectionValue(root1, comp.section,
                              PyDict(SetItem(c1.m, nm.name, st.c)))
             IN  [raised |-> st.raised, name |-> nm.name, store |-> root2,
                  attrs |-> st.attrs, configured |-> st.configured,
                  default |-> st.default,
                  save |-> st.raised = "" /\ ShouldSave(st.configured, st.default)]

----------------------------------------------------------------------------
(* The components and the files the model is run on *)

Speed == <<"s", "p", "e", "e", "d">>
Enabled == <<"e", "n", "a", "b", "l", "e", "d">>
Pos == <<"p", "o", "s">>
Tags == <<"t", "a", "g", "s">>
Hidden == <<"_", "n">>
MakeNameAttr == <<"m", "a", "k", "e", "_", "n", "a", "m", "e">>
KeyY == <<"y">>
SectionS == <<"s">>
SectionX == <<"x">>
NoSection == <<>>
Widget == <<"W", "i", "d", "g", "e", "t">>
Motor == <<"M", "o", "t", "o", "r">>
MotorA == <<"m", "o", "t", "o", "r", "-", "a">>
MotorB == <<"m", "o", "t", "o", "r", "-", "b">>

NoStr == [has |-> FALSE, s |-> <<>>]
StrIs(chars) == [has |-> TRUE, s |-> chars]

\* every instance has the inherited method make_name and a private field
BaseAttrs == SetItem(SetItem(<<>>, MakeNameAttr, PyMethod), Hidden, PyInt(7))
BaseDir == <<Hidden, MakeNameAttr>>

Component(cls, str, section, dir, attrs) ==
    [cls |-> cls, str |-> str, section |-> section, dir |-> dir, attrs |-> attrs]

WidgetAttrs ==
    SetItem(SetItem(BaseAttrs, Speed, PyFloat(10)), Tags, PyList(<<PyStr(<<"a">>)>>))
WidgetDir == BaseDir \o <<Speed, Tags>>
MotorAttrs == SetItem(BaseAttrs, Pos, PyTuple(<<PyInt(1), PyInt(2)>>))
MotorDir == BaseDir \o <<Pos>>

Components ==
    << \* class Widget in section s: speed = 1.0, tags = ["a"]
       Component(Widget, NoStr, SectionS, WidgetDir, WidgetAttrs),
       \* the same class after enabled = True was added to its code
       Component(Widget, NoStr, SectionS, <<Enabled>> \o WidgetDir,
                 SetItem(WidgetAttrs, Enabled, PyBool(TRUE))),
       \* and constructed without a section
       Component(Widget, NoStr, NoSection, <<Enabled>> \o WidgetDir,
                 SetItem(WidgetAttrs, Enabled, PyBool(TRUE))),
       \* Motor instances whose __str__ returns a name of their own; pos = (1, 2)
       Component(Motor, StrIs(MotorA), SectionS, MotorDir, MotorAttrs),
       Component(Motor, StrIs(MotorB), SectionS, MotorDir, MotorAttrs),
       Component(Motor, StrIs(<<"<", "m", ">">>), SectionS, MotorDir, MotorAttrs),
       Component(Motor, StrIs(<<>>), SectionS, MotorDir, MotorAttrs),
       Component(Motor, StrIs(UseConfigKey), NoSection, MotorDir, MotorAttrs),
       \* class X, no section, y = {}
       Component(<<"X">>, NoStr, NoSection, BaseDir \o <<KeyY>>,
                 SetItem(BaseAttrs, KeyY, PyDict(<<>>))),
       \* class Y in section x, speed = 1
       Component(<<"Y">>, NoStr, SectionX, BaseDir \o <<Speed>>,
                 SetItem(BaseAttrs, Speed, PyInt(1))),
       \* class P in section x, nothing to configure
       Component(<<"P">>, NoStr, SectionX, BaseDir, BaseAttrs) >>

WidgetName == Lower(Widget)

\* {"s": {"widget": {"speed": 2.5}}}
EditedItems ==
    SetItem(<<>>, SectionS,
        PyDict(SetItem(<<>>, WidgetName,
            PyDict(SetItem(<<>>, Speed, PyFloat(25))))))

InitialFiles ==
    { Missing,
      Garbage,
      Json(PyList(<<>>)),
      Json(PyInt(5)),
      Json(PyDict(EditedItems)),
      Json(PyDict(SetItem(EditedItems, UseConfigKey, PyBool(FALSE)))),
      Json(PyDict(SetItem(EditedItems, UseConfigKey, PyBool(TRUE)))),
      Json(PyDict(SetItem(SetItem(<<>>, UseConfigKey, PyBool(TRUE)),
                          SectionS, PyInt(5)))) }

----------------------------------------------------------------------------
(* The processes *)

\* the paths of all keys of nested dicts
RECURSIVE Paths(_)
Paths(v) ==
    IF IsDict(v)
    THEN UNION { {<<k>>} \cup { <<k>> \o p : p \in Paths(v.m[k]) } : k \in DOMAIN v.m }
    ELSE {}

NoCall ==
    [made |-> FALSE, ok |-> FALSE, raised |-> "", comp |-> Components[1],
     name |-> <<>>, before |-> DefaultConfig, fileBefore |-> Missing,
     attrs |-> Components[1].attrs, configured |-> 0, default |-> 0,
     again |-> FALSE, placedBefore |-> {}]

Init ==
    /\ file \in InitialFiles
    /\ pc = "boot"
    /\ store = DefaultConfig
    /\ last = NoCall
    /\ attached = {}
    /\ placed = {}
    /\ bootFile = Missing
    /\ saved = [has |-> FALSE, store |-> DefaultConfig]
    /\ runs = 0
    /\ calls = 0

\* the interpreter imports the module: lines 23-25
Start ==
    /\ pc = "boot"
    /\ runs < MaxRuns
    /\ LET r == Load(file) IN
         /\ pc' = IF r.raised = "" THEN "running" ELSE "failed"
         /\ store' = r.store
    /\ bootFile' = file
    /\ last' = NoCall
    /\ attached' = {}
    /\ placed' = {}
    /\ runs' = runs + 1
    /\ UNCHANGED <<file, saved, calls>>

\* save_config, lines 82-84, with make_config, lines 87-89
SaveConfig(root) == Json(Dumps(root))

\* an instance of Components[i] is constructed
Construct(i) ==
    /\ pc = "running"
    /\ calls < MaxCalls
    /\ LET comp == Components[i]
           r == Attach(store, comp)
       IN  /\ store' = r.store
           /\ file' = IF r.save THEN SaveConfig(r.store) ELSE file
           /\ saved' = IF r.save THEN [has |-> TRUE, store |-> r.store] ELSE saved
           /\ attached' = IF r.raised = ""
                          THEN attached \cup {<<comp.section, r.name>>}
                          ELSE attached
           /\ placed' = placed \cup (Paths(r.store) \ Paths(store))
           /\ last' = [made |-> TRUE, ok |-> r.raised = "", raised |-> r.raised,
                       comp |-> comp, name |-> r.name, before |-> store,
                       fileBefore |-> file, attrs |-> r.attrs,
                       configured |-> r.configured, default |-> r.default,
                       again |-> last.ok /\ last.comp = comp,
                       placedBefore |-> placed]
    /\ calls' = calls + 1
    /\ UNCHANGED <<pc, bootFile, runs>>

\* the process ends
Exit ==
    /\ pc \in {"running", "failed"}
    /\ pc' = "boot"
    /\ UNCHANGED <<file, store, last, attached, placed, bootFile, saved, runs, calls>>

Next ==
    \/ Start
    \/ \E i \in DOMAIN Components : Construct(i)
    \/ Exit

Spec == Init /\ [][Next]_vars

TypeOK ==
    /\ pc \in {"boot", "running", "failed"}
    /\ runs \in 0..MaxRuns
    /\ calls \in 0..MaxCalls
    /\ IsDict(store)

----------------------------------------------------------------------------
(* What the formulas below speak of *)

\* the attributes __init__ considers: public name, value of a listed type
Eligible(comp) ==
    { k \in DOMAIN comp.attrs :
        ~StartsWithUnderscore(k) /\ comp.attrs[k].t \in ConfigurableTypes }

\* root[section][name] is there and is a mapping
HasEntry(root, section, name) ==
    /\ section # <<>> => section \in DOMAIN root.m /\ IsDict(root.m[section])
    /\ LET c == IF section # <<>> THEN root.m[section] ELSE root
       IN  name \in DOMAIN c.m /\ IsDict(c.m[name])

\* the items of root[section][name]
EntryItems(root, section, name) ==
    IF HasEntry(root, section, name)
    THEN (IF section # <<>> THEN root.m[section] ELSE root).m[name].m
    ELSE <<>>

\* the last call got as far as a name
Named == last.made /\ last.raised # "IndexError"
LastBefore == EntryItems(last.before, last.comp.section, last.name)
LastAfter == EntryItems(store, last.comp.section, last.name)

----------------------------------------------------------------------------
(* C1: stored values win over code defaults.  When a component is attached *)
(* and the store already has a mapping at its (section, name), the call    *)
(* returns, every eligible attribute whose name is in that mapping has the *)
(* stored value afterwards, and the restored and defaulted counts are the  *)
(* numbers of eligible names found and not found there.                    *)
C1_StoredValuesWin ==
    (Named /\ HasEntry(last.before, last.comp.section, last.name)) =>
        /\ last.ok
        /\ \A k \in Eligible(last.comp) \cap DOMAIN LastBefore :
               last.attrs[k] = LastBefore[k]
        /\ last.configured = Cardinality(Eligible(last.comp) \cap DOMAIN LastBefore)
        /\ last.default = Cardinality(Eligible(last.comp) \ DOMAIN LastBefore)

\* stored s/widget/speed = 2.5, default speed = 1.0: speed becomes 2.5,
\* one restored, none defaulted
C1_Witness ==
    /\ last.ok
    /\ last.comp = Components[1]
    /\ LastBefore = SetItem(<<>>, Speed, PyFloat(25))
    /\ last.comp.attrs[Speed] = PyFloat(10)
    /\ last.attrs[Speed] = PyFloat(25)
    /\ last.configured = 1
    /\ last.default = 0

----------------------------------------------------------------------------
\* the identities the components of the model attach with
Identities ==
    { <<Components[i].section, MakeName(Components[i]).name>> :
        i \in { j \in DOMAIN Components : MakeName(Components[j]).raised = "" } }

(* C2: attach only fills gaps.  A call that returns adds to the entry at   *)
(* its (section, name) exactly the eligible attributes that were not in it,*)
(* each with the component's default and with the component's attribute    *)
(* left as it was, and every attribute stored before the call, in that     *)
(* entry and in the entry of every other identity, still has its value.    *)
C2_AttachOnlyFillsGaps ==
    last.ok =>
        /\ DOMAIN LastAfter = DOMAIN LastBefore \cup Eligible(last.comp)
        /\ \A k \in Eligible(last.comp) \ DOMAIN LastBefore :
               LastAfter[k] = last.comp.attrs[k] /\ last.attrs[k] = last.comp.attrs[k]
        /\ \A id \in Identities \cup {<<last.comp.section, last.name>>} :
               LET old == EntryItems(last.before, id[1], id[2])
                   new == EntryItems(store, id[1], id[2])
               IN  \A k \in DOMAIN old : k \in DOMAIN new /\ new[k] = old[k]

----------------------------------------------------------------------------
\* the document on disk is a mapping in which use-config is false or absent
UseConfigOff(f) ==
    /\ f.kind = "json"
    /\ IsDict(f.doc)
    /\ UseConfigKey \in DOMAIN f.doc.m => ~Truthy(f.doc.m[UseConfigKey])

\* where the last call keeps attribute k in the store
LastPath(k) ==
    IF last.comp.section # <<>> THEN <<last.comp.section, last.name, k>>
    ELSE <<last.name, k>>

(* C3 as stated: with use-config false or absent at process start, every   *)
(* attach of the process takes the defaulted branch for every eligible     *)
(* attribute (nothing is restored) and the store starts from the built-in  *)
(* default document.                                                       *)
C3_AlwaysDefaulted ==
    (pc = "running" /\ UseConfigOff(bootFile)) =>
        /\ ~last.made => store = DefaultConfig
        /\ last.ok => /\ last.configured = 0
                      /\ last.default = Cardinality(Eligible(last.comp))

(* C3 amended: with use-config false or absent at process start, the store *)
(* starts from the built-in default document, and an attach takes the      *)
(* defaulted branch for every eligible attribute except those whose name   *)
(* an earlier attach of the same process has put into the component's      *)
(* entry: nothing is ever restored from the document that was on disk.     *)
C3_DiskNeverConsulted ==
    (pc = "running" /\ UseConfigOff(bootFile)) =>
        /\ ~last.made => store = DefaultConfig
        /\ last.ok =>
             \A k \in Eligible(last.comp) :
                 LastPath(k) \notin last.placedBefore =>
                     /\ k \notin DOMAIN LastBefore
                     /\ last.attrs[k] = last.comp.attrs[k]
                     /\ LastAfter[k] = last.comp.attrs[k]
                     /\ last.default > 0

\* the file holds use-config false and s/widget/speed = 2.5; widget is
\* attached and keeps speed = 1.0
C3_Witness ==
    /\ pc = "running"
    /\ UseConfigOff(bootFile)
    /\ UseConfigKey \in DOMAIN bootFile.doc.m
    /\ EntryItems(bootFile.doc, SectionS, WidgetName) = SetItem(<<>>, Speed, PyFloat(25))
    /\ last.ok
    /\ last.comp = Components[1]
    /\ last.placedBefore = {}
    /\ last.attrs[Speed] = PyFloat(10)
    /\ last.default = 1
    /\ last.configured = 0

----------------------------------------------------------------------------
(* C4: attach is idempotent.  When a component is attached right after an  *)
(* attach of the same component that returned, the second call returns     *)
(* with no attribute defaulted and all N eligible attributes restored, and *)
(* changes neither the store nor the file.                                 *)
C4_Idempotent ==
    (last.made /\ last.again) =>
        /\ last.ok
        /\ last.default = 0
        /\ last.configured = Cardinality(Eligible(last.comp))
        /\ store = last.before
        /\ file = last.fileBefore

\* widget with speed and enabled attached twice: 0 defaulted, 2 restored
C4_Witness ==
    /\ last.made
    /\ last.again
    /\ last.comp = Components[2]
    /\ last.configured = 2
    /\ last.default = 0

----------------------------------------------------------------------------
C5_WitnessNoSave ==
    /\ last.ok
    /\ last.default = 0
    /\ store # last.before
    /\ file = last.fileBefore

----------------------------------------------------------------------------
(* C6: the store and the document agree.  While a process runs and no      *)
(* attach is in progress, every attribute in the store entry of every      *)
(* identity attached so far is in the document on disk, at the same        *)
(* (section, name), with the same value as serialised.                     *)
C6_StoreOnDisk ==
    pc = "running" =>
        \A id \in attached :
            LET mem == EntryItems(store, id[1], id[2])
                disk == IF file.kind = "json" /\ IsDict(file.doc)
                        THEN EntryItems(file.doc, id[1], id[2])
                        ELSE <<>>
            IN  \A k \in DOMAIN mem : k \in DOMAIN disk /\ disk[k] = Dumps(mem[k])

----------------------------------------------------------------------------
\* the store that was saved has use-config set, so the next load keeps the file
SavedHonoured ==
    /\ saved.has
    /\ UseConfigKey \in DOMAIN saved.store.m
    /\ Truthy(saved.store.m[UseConfigKey])

(* C7: round trip.  When a process starts on a document an earlier process *)
(* saved with use-config set, every attribute of every entry has, in the   *)
(* store just loaded, a value equal to the one that was in the store when  *)
(* it was saved.                                                           *)
C7_RoundTrip ==
    (pc = "running" /\ ~last.made /\ SavedHonoured) =>
        \A id \in Identities :
            LET was == EntryItems(saved.store, id[1], id[2])
                now == EntryItems(store, id[1], id[2])
            IN  \A k \in DOMAIN was : k \in DOMAIN now /\ now[k] = was[k]

----------------------------------------------------------------------------
(* C8: identity.  The name a component is attached under is the string its *)
(* __str__ returns whenever it has one of its own, whatever the string,    *)
(* and the lower-cased class name otherwise; so two components of one      *)
(* class with different strings of their own get different names.          *)
C8_NameIsOverride ==
    /\ last.made =>
         IF last.comp.str.has
         THEN last.raised # "IndexError" /\ last.name = last.comp.str.s
         ELSE last.name = Lower(last.comp.cls)
    /\ \A i, j \in DOMAIN Components :
         LET a == Components[i]
             b == Components[j]
         IN  (a.cls = b.cls /\ a.str.has /\ b.str.has /\ a.str.s # b.str.s
              /\ <<a.section, MakeName(a).name>> \in attached
              /\ <<b.section, MakeName(b).name>> \in attached)
             => MakeName(a).name # MakeName(b).name

----------------------------------------------------------------------------
\* the file is there and is not a document: it is not JSON, or the JSON value
\* in it is not a mapping
Malformed(f) ==
    \/ f.kind = "garbage"
    \/ f.kind = "json" /\ ~IsDict(f.doc)

(* C9: a file that does not parse as a mapping makes the load fail: no     *)
(* process runs on the default document put in place of such a file.       *)
C9_MalformedFails ==
    pc = "running" => ~Malformed(bootFile)

----------------------------------------------------------------------------
\* where an identity keeps its entry
EntryPath(id) == IF id[1] # <<>> THEN <<id[1], id[2]>> ELSE <<id[2]>>

IsPrefix(p, q) == Len(p) <= Len(q) /\ SubSeq(q, 1, Len(p)) = p

(* C10: namespace isolation.  Identities that differ own disjoint entries: *)
(* no entry of an attached identity lies on the reserved keys or inside    *)
(* the entry of another attached identity, and a call of attach leaves the *)
(* entry of every other identity and the reserved keys as they were.       *)
C10_Isolation ==
    /\ \A a \in attached :
         /\ EntryPath(a)[1] \notin {UseConfigKey, UseConfigCommentKey}
         /\ \A b \in attached \ {a} : ~IsPrefix(EntryPath(a), EntryPath(b))
    /\ last.made =>
         /\ \A id \in attached \ {<<last.comp.section, last.name>>} :
              EntryItems(store, id[1], id[2]) = EntryItems(last.before, id[1], id[2])
         /\ \A k \in {UseConfigKey, UseConfigCommentKey} :
              /\ k \in DOMAIN store.m <=> k \in DOMAIN last.before.m
              /\ k \in DOMAIN store.m => store.m[k] = last.before.m[k]

====
